---- MODULE Spec2Model ----
(***************************************************************************)
(* Model of the AVL tree of src/src/lib.rs.                                *)
(*                                                                         *)
(* An Option<Box<AvlTreeNode<V>>> is a sequence of length 0 (None) or 1    *)
(* (Some(node)); an AvlTree is identified with its root field.  A node is  *)
(* the record [val, height, left, right] whose left and right are trees.   *)
(* Every operation that can panic returns a record with a field fatal      *)
(* holding the panic message ("" when the call completed normally).        *)
(***************************************************************************)
EXTENDS Integers, Sequences, FiniteSets, TLC

\* Values are 1..MaxVal (V: Ord + Copy, here small integers).
MaxVal == 8

Values == 1..MaxVal

VARIABLES tree, before, op, arg, ret, fatal,
          it_pc, cur_node, stack, queue, pushed

iter_vars == <<it_pc, cur_node, stack, queue, pushed>>

vars == <<tree, before, op, arg, ret, fatal, iter_vars>>

----------------------------------------------------------------------------
\* Option and node constructors

None == <<>>

Some(n) == <<n>>

Max2(a, b) == IF a >= b THEN a ELSE b

\* AvlTree::new
new == None

\* AvlTreeNode::new
AvlTreeNode_new(value) ==
    [val |-> value, height |-> 1, left |-> new, right |-> new]

\* AvlTree::get_height
get_height(self) == IF self = None THEN 0 ELSE self[1].height

\* AvlTree::get_val (an Option)
get_val(self) == IF self = None THEN None ELSE Some(self[1].val)

\* AvlTreeNode::update_height
update_height(n) ==
    [n EXCEPT !.height = 1 + Max2(get_height(n.left), get_height(n.right))]

\* AvlTreeNode::get_balance
node_get_balance(n) == get_height(n.left) - get_height(n.right)

\* AvlTree::get_balance
get_balance(self) == IF self = None THEN 0 ELSE node_get_balance(self[1])

\* Result of a call on a tree: the tree afterwards and the panic message.
Ok(t) == [t |-> t, fatal |-> ""]

Panic(t, msg) == [t |-> t, fatal |-> msg]

----------------------------------------------------------------------------
\* Rotation primitives

\* rotate_left taking t2 from the wrong side of y (y.right instead of y.left)
rotate_left_wrong_side(self) ==
    IF self = None THEN Panic(self, "Can't rotate left: root is empty")
    ELSE LET x == self[1] IN
         IF x.right = None THEN Panic(self, "Can't rotate left: no right child")
         ELSE LET y  == x.right[1]
                  t2 == y.right
                  x1 == update_height([x EXCEPT !.right = t2])
                  y1 == update_height([y EXCEPT !.left = Some(x1), !.right = None])
              IN Ok(Some(y1))

rotate_left(self) ==
    IF self = None THEN Panic(self, "Can't rotate left: root is empty")
    ELSE LET x == self[1] IN
         IF x.right = None THEN Panic(self, "Can't rotate left: no right child")
         ELSE LET y  == x.right[1]
                  t2 == y.left
                  x1 == update_height([x EXCEPT !.right = t2])
                  y1 == update_height([y EXCEPT !.left = Some(x1)])
              IN Ok(Some(y1))

\* rotate_right forgetting to hand x's former right subtree t2 to y
rotate_right_drop_t2(self) ==
    IF self = None THEN Panic(self, "Can't rotate right: root is empty")
    ELSE LET y == self[1] IN
         IF y.left = None THEN Panic(self, "Can't rotate right: no left child")
         ELSE LET x  == y.left[1]
                  y1 == update_height([y EXCEPT !.left = None])
                  x1 == update_height([x EXCEPT !.right = Some(y1)])
              IN Ok(Some(x1))

\* rotate_right recomputing x's height before y's
rotate_right_height_order(self) ==
    IF self = None THEN Panic(self, "Can't rotate right: root is empty")
    ELSE LET y == self[1] IN
         IF y.left = None THEN Panic(self, "Can't rotate right: no left child")
         ELSE LET x  == y.left[1]
                  t2 == x.right
                  y0 == [y EXCEPT !.left = t2]
                  x1 == update_height([x EXCEPT !.right = Some(y0)])
              IN Ok(Some([x1 EXCEPT !.right = Some(update_height(y0))]))

rotate_right(self) ==
    IF self = None THEN Panic(self, "Can't rotate right: root is empty")
    ELSE LET y == self[1] IN
         IF y.left = None THEN Panic(self, "Can't rotate right: no left child")
         ELSE LET x  == y.left[1]
                  t2 == x.right
                  y1 == update_height([y EXCEPT !.left = t2])
                  x1 == update_height([x EXCEPT !.right = Some(y1)])
              IN Ok(Some(x1))

\* node.left.rotate_left(); self.rotate_right();
rotate_left_right(self) ==
    LET node == self[1]
        r1   == rotate_left(node.left)
    IN IF r1.fatal # "" THEN Panic(self, r1.fatal)
       ELSE rotate_right(Some([node EXCEPT !.left = r1.t]))

\* node.right.rotate_right(); self.rotate_left();
rotate_right_left(self) ==
    LET node == self[1]
        r1   == rotate_right(node.right)
    IN IF r1.fatal # "" THEN Panic(self, r1.fatal)
       ELSE rotate_left(Some([node EXCEPT !.right = r1.t]))

----------------------------------------------------------------------------
\* Insertion-time rebalancing

\* balance acting only from a balance factor of magnitude 3
balance_late(self, value) ==
    IF self = None THEN Ok(self)
    ELSE LET node == self[1]
             bal  == node_get_balance(node)
         IN IF bal >= 3 THEN
                IF value < node.left[1].val THEN rotate_right(self)
                ELSE rotate_left_right(self)
            ELSE IF bal < -2 THEN
                IF value < node.right[1].val THEN rotate_right_left(self)
                ELSE rotate_left(self)
            ELSE Ok(self)

\* balance resolving every imbalance by a single rotation
balance_single_only(self, value) ==
    IF self = None THEN Ok(self)
    ELSE LET bal == node_get_balance(self[1])
         IN IF bal >= 2 THEN rotate_right(self)
            ELSE IF bal < -1 THEN rotate_left(self)
            ELSE Ok(self)

balance(self, value) ==
    IF self = None THEN Ok(self)
    ELSE LET node == self[1]
             bal  == node_get_balance(node)
         IN IF bal >= 2 THEN
                IF get_val(node.left) = None
                THEN Panic(self, "balance: left does not exist, but bal > 1")
                ELSE LET left_val == get_val(node.left)[1] IN
                     IF value < left_val THEN rotate_right(self)
                     ELSE IF value > left_val THEN rotate_left_right(self)
                     ELSE Panic(self, "balance: new value and node value are equal: not allowed")
            ELSE IF bal < -1 THEN
                IF get_val(node.right) = None
                THEN Panic(self, "balance: right does not exist, but bal < -1")
                ELSE LET right_val == get_val(node.right)[1] IN
                     IF value < right_val THEN rotate_right_left(self)
                     ELSE IF value > right_val THEN rotate_left(self)
                     ELSE Panic(self, "balance: new value and node value are equal: not allowed")
            ELSE Ok(self)

\* Deletion-time rebalancing
remove_balance(self) ==
    IF self = None THEN Ok(self)
    ELSE LET node == self[1]
             bal  == node_get_balance(node)
         IN IF bal >= 2 THEN
                IF get_balance(node.left) <= -1 THEN rotate_left_right(self)
                ELSE rotate_right(self)
            ELSE IF bal < -1 THEN
                IF get_balance(node.right) <= 0 THEN rotate_left(self)
                ELSE rotate_right_left(self)
            ELSE Ok(self)

----------------------------------------------------------------------------
\* Insertion

RECURSIVE insert(_, _)
insert(self, value) ==
    IF self = None THEN Ok(Some(AvlTreeNode_new(value)))
    ELSE LET node == self[1] IN
         IF value = node.val THEN Ok(self)
         ELSE LET sub   == IF value < node.val THEN insert(node.left, value)
                                               ELSE insert(node.right, value)
                  node1 == IF value < node.val
                           THEN [node EXCEPT !.left = sub.t]
                           ELSE [node EXCEPT !.right = sub.t]
              IN IF sub.fatal # "" THEN Panic(Some(node1), sub.fatal)
                 ELSE balance(Some(update_height(node1)), value)

----------------------------------------------------------------------------
\* Deletion

\* Result: t is self afterwards, node the detached node (an Option).
RECURSIVE take_min_node(_)
take_min_node(self) ==
    IF self = None
    THEN [t |-> self, node |-> None, fatal |-> "take_min: too low"]
    ELSE LET node == self[1] IN
         IF node.left = None
         THEN [t |-> None, node |-> self, fatal |-> ""]
         ELSE LET sub   == take_min_node(node.left)
                  node1 == update_height([node EXCEPT !.left = sub.t])
                  rb    == remove_balance(Some(node1))
              IN IF sub.fatal # ""
                 THEN [t |-> self, node |-> None, fatal |-> sub.fatal]
                 ELSE [t |-> rb.t, node |-> sub.node, fatal |-> rb.fatal]

RemoveResult(t, r, f) == [t |-> t, ret |-> r, fatal |-> f]

\* lines 61-68: update_height, remove_balance, return true
remove_tail(self) ==
    IF self = None THEN RemoveResult(self, FALSE, "remove: self is empty")
    ELSE LET rb == remove_balance(Some(update_height(self[1])))
         IN RemoveResult(rb.t, TRUE, rb.fatal)

RECURSIVE remove(_, _)
remove(self, value) ==
    IF self = None THEN RemoveResult(self, FALSE, "")
    ELSE LET node == self[1] IN
         IF value < node.val THEN
             LET sub == remove(node.left, value) IN
             IF sub.fatal # "" THEN RemoveResult(self, FALSE, sub.fatal)
             ELSE remove_tail(Some([node EXCEPT !.left = sub.t]))
         ELSE IF value > node.val THEN
             LET sub == remove(node.right, value) IN
             IF sub.fatal # "" THEN RemoveResult(self, FALSE, sub.fatal)
             ELSE remove_tail(Some([node EXCEPT !.right = sub.t]))
         ELSE IF node.left = None /\ node.right = None THEN
             RemoveResult(None, TRUE, "")
         ELSE IF node.right = None THEN
             RemoveResult(node.left, TRUE, "")
         ELSE IF node.left = None THEN
             RemoveResult(node.right, TRUE, "")
         ELSE
             LET tm == take_min_node(node.right) IN
             IF tm.fatal # "" THEN RemoveResult(self, FALSE, tm.fatal)
             ELSE LET new_node == [tm.node[1] EXCEPT !.left = node.left,
                                                      !.right = tm.t]
                  IN remove_tail(Some(new_node))

----------------------------------------------------------------------------
\* Queries

RECURSIVE contains(_, _)
\* contains descending into the wrong subtree
contains_swapped(self, value) ==
    IF self = None THEN FALSE
    ELSE LET node == self[1] IN
         IF value < node.val THEN contains(node.right, value)
         ELSE IF value > node.val THEN contains(node.left, value)
         ELSE TRUE

contains(self, value) ==
    IF self = None THEN FALSE
    ELSE LET node == self[1] IN
         IF value < node.val THEN contains(node.left, value)
         ELSE IF value > node.val THEN contains(node.right, value)
         ELSE TRUE

RECURSIVE node_min(_)
node_min(n) == IF n.left = None THEN n.val ELSE node_min(n.left[1])

RECURSIVE node_max(_)
node_max(n) == IF n.right = None THEN n.val ELSE node_max(n.right[1])

\* min without the descent to the leftmost node
min_no_descent(self) == get_val(self)

\* AvlTree::min, AvlTree::max (an Option)
min(self) == IF self = None THEN None ELSE Some(node_min(self[1]))

max(self) == IF self = None THEN None ELSE Some(node_max(self[1]))

----------------------------------------------------------------------------
\* Ordered extraction: the loop of into_iter on (cur_node, stack, queue),
\* run to completion.

RECURSIVE into_iter_loop(_, _, _)
\* the loop forgetting to continue with the popped node's right subtree
into_iter_loop_skip_right(cur, stk, que) ==
    IF cur # None
    THEN LET node == cur[1] IN
         into_iter_loop(node.left, Append(stk, [node EXCEPT !.left = None]), que)
    ELSE IF stk # <<>>
    THEN LET node == stk[Len(stk)] IN
         into_iter_loop(None, SubSeq(stk, 1, Len(stk) - 1),
                        Append(que, node.val))
    ELSE que

into_iter_loop(cur, stk, que) ==
    IF cur # None
    THEN \* while let Some(mut node) = cur_node
         LET node == cur[1] IN
         into_iter_loop(node.left, Append(stk, [node EXCEPT !.left = None]), que)
    ELSE IF stk # <<>>
    THEN \* stack.pop()
         LET node == stk[Len(stk)] IN
         into_iter_loop(node.right, SubSeq(stk, 1, Len(stk) - 1),
                        Append(que, node.val))
    ELSE que

into_iter(self) == into_iter_loop(self, <<>>, <<>>)

----------------------------------------------------------------------------
\* The state machine: public insert and remove calls on one tree.
\*   tree    the tree owned by the caller
\*   before  the tree as it was when the last call started
\*   op/arg  the last call and its argument
\*   ret     the value returned by the last remove
\*   fatal   the panic message of the last call, "" if it returned.  A panic
\*           ends the program: no further call is made, and tree keeps the
\*           value it had when the panicking call started.
\*   it_pc   "idle" until into_iter is called, "loop" while its loop runs,
\*           "done" when it has returned; into_iter consumes the tree, so no
\*           call follows it
\*   cur_node, stack, queue   the locals of into_iter
\*   pushed  the values of the nodes pushed on stack so far, in order

Init ==
    /\ tree = new
    /\ before = new
    /\ op = "new"
    /\ arg = 0
    /\ ret = FALSE
    /\ fatal = ""
    /\ it_pc = "idle"
    /\ cur_node = None
    /\ stack = <<>>
    /\ queue = <<>>
    /\ pushed = <<>>

Insert(v) ==
    /\ fatal = ""
    /\ it_pc = "idle"
    /\ LET r == insert(tree, v) IN
         /\ tree' = (IF r.fatal = "" THEN r.t ELSE tree)
         /\ fatal' = r.fatal
    /\ before' = tree
    /\ op' = "insert"
    /\ arg' = v
    /\ ret' = FALSE
    /\ UNCHANGED iter_vars

Remove(v) ==
    /\ fatal = ""
    /\ it_pc = "idle"
    /\ LET r == remove(tree, v) IN
         /\ tree' = (IF r.fatal = "" THEN r.t ELSE tree)
         /\ ret' = r.ret
         /\ fatal' = r.fatal
    /\ before' = tree
    /\ op' = "remove"
    /\ arg' = v
    /\ UNCHANGED iter_vars

DoInsert == \E v \in Values : Insert(v)

DoRemove == \E v \in Values : Remove(v)

Next == DoInsert \/ DoRemove

Spec == Init /\ [][Next]_vars

\* Insert calls only.
NextInsert == DoInsert

SpecInsert == Init /\ [][NextInsert]_vars

\* into_iter(mut self), one loop step at a time.
\* lines 312-315: take the root, start with an empty stack and queue
IntoIter ==
    /\ fatal = ""
    /\ it_pc = "idle"
    /\ cur_node' = tree
    /\ tree' = None
    /\ stack' = <<>>
    /\ queue' = <<>>
    /\ pushed' = <<>>
    /\ it_pc' = "loop"
    /\ before' = tree
    /\ op' = "into_iter"
    /\ arg' = 0
    /\ ret' = FALSE
    /\ UNCHANGED fatal

\* lines 318-321: one iteration of the inner while
IterPush ==
    /\ it_pc = "loop"
    /\ cur_node # None
    /\ LET node == cur_node[1] IN
         /\ cur_node' = node.left
         /\ stack' = Append(stack, [node EXCEPT !.left = None])
         /\ pushed' = Append(pushed, node.val)
    /\ UNCHANGED <<tree, before, op, arg, ret, fatal, it_pc, queue>>

\* IterPop forgetting the popped node's right subtree
IterPop_skip_right ==
    /\ it_pc = "loop"
    /\ cur_node = None
    /\ stack # <<>>
    /\ LET node == stack[Len(stack)] IN
         /\ queue' = Append(queue, node.val)
         /\ cur_node' = None
         /\ stack' = SubSeq(stack, 1, Len(stack) - 1)
    /\ UNCHANGED <<tree, before, op, arg, ret, fatal, it_pc, pushed>>

\* lines 323-327: stack.pop() gave Some(node)
IterPop ==
    /\ it_pc = "loop"
    /\ cur_node = None
    /\ stack # <<>>
    /\ LET node == stack[Len(stack)] IN
         /\ queue' = Append(queue, node.val)
         /\ cur_node' = node.right
         /\ stack' = SubSeq(stack, 1, Len(stack) - 1)
    /\ UNCHANGED <<tree, before, op, arg, ret, fatal, it_pc, pushed>>

\* lines 328-331 and 335: stack.pop() gave None and cur_node is None: break
IterBreak ==
    /\ it_pc = "loop"
    /\ cur_node = None
    /\ stack = <<>>
    /\ it_pc' = "done"
    /\ UNCHANGED <<tree, before, op, arg, ret, fatal, cur_node, stack, queue, pushed>>

IterStep == IterPush \/ IterPop \/ IterBreak

NextIter == DoInsert \/ DoRemove \/ IntoIter \/ IterStep

\* A call of into_iter runs its loop without interruption (single-threaded,
\* synchronous), hence weak fairness of the loop steps.
SpecIter == Init /\ [][NextIter]_vars /\ WF_vars(IterStep)

----------------------------------------------------------------------------
\* Structural predicates on trees

RECURSIVE Elements(_)
Elements(t) ==
    IF t = None THEN {}
    ELSE {t[1].val} \cup Elements(t[1].left) \cup Elements(t[1].right)

RECURSIVE Size(_)
Size(t) == IF t = None THEN 0 ELSE 1 + Size(t[1].left) + Size(t[1].right)

\* |height(left) - height(right)| <= 1 at every node
RECURSIVE AvlBalanced(_)
AvlBalanced(t) ==
    IF t = None THEN TRUE
    ELSE /\ node_get_balance(t[1]) \in -1..1
         /\ AvlBalanced(t[1].left)
         /\ AvlBalanced(t[1].right)

RECURSIVE HeightsCorrect(_)
HeightsCorrect(t) ==
    IF t = None THEN TRUE
    ELSE /\ t[1].height = 1 + Max2(get_height(t[1].left), get_height(t[1].right))
         /\ HeightsCorrect(t[1].left)
         /\ HeightsCorrect(t[1].right)

RECURSIVE BstOrder(_)
BstOrder(t) ==
    IF t = None THEN TRUE
    ELSE /\ \A w \in Elements(t[1].left) : w < t[1].val
         /\ \A w \in Elements(t[1].right) : w > t[1].val
         /\ BstOrder(t[1].left)
         /\ BstOrder(t[1].right)

StrictlyAscending(s) == \A i \in 1..(Len(s) - 1) : s[i] < s[i + 1]

SetMin(S) == CHOOSE x \in S : \A y \in S : x <= y

SetMax(S) == CHOOSE x \in S : \A y \in S : x >= y

\* The last call returned (it did not panic).
Returned(o) == op = o /\ fatal = ""

----------------------------------------------------------------------------
\* C1: after every insert or remove call, every node of the tree satisfies
\* |height(left) - height(right)| <= 1.
C1_BalanceInvariant == AvlBalanced(tree)

\* C2: after remove(&v) of a stored value v, contains(&v) is false and
\* contains(&w) is still true for every other value w stored before the call.
C2_DeletionCorrect ==
    (Returned("remove") /\ arg \in Elements(before)) =>
        /\ ~contains(tree, arg)
        /\ \A w \in Elements(before) \ {arg} : contains(tree, w)

\* C3: remove(&v) returns true exactly when v was stored before the call.
C3_RemoveReturn ==
    Returned("remove") => (ret <=> arg \in Elements(before))

\* C4: remove(&v) of a value that is not stored leaves the tree unchanged
\* (shape, values, cached heights, ordered extraction).
C4_RemoveAbsentUnchanged ==
    (op = "remove" /\ arg \notin Elements(before)) =>
        /\ fatal = ""
        /\ tree = before
        /\ into_iter(tree) = into_iter(before)

\* C5: BST order holds at every node, so the in-order extraction is strictly
\* ascending and no value appears twice.
C5_BstOrder ==
    /\ BstOrder(tree)
    /\ StrictlyAscending(into_iter(tree))
    /\ Len(into_iter(tree)) = Size(tree)
    /\ Size(tree) = Cardinality(Elements(tree))

\* C5 witness: a remove deleted a root that had two children.
C5_Witness ==
    /\ Returned("remove")
    /\ before # None
    /\ arg = before[1].val
    /\ before[1].left # None
    /\ before[1].right # None
    /\ Size(tree) >= 4

\* C6: after every insert or remove call, every node's cached height equals
\* 1 + max(height(left), height(right)), an empty tree having height 0.
C6_HeightCorrect == HeightsCorrect(tree)

\* C6 witness: an insert rotated at the root of a tree of height 3.
C6_Witness ==
    /\ Returned("insert")
    /\ before # None
    /\ tree[1].val # before[1].val
    /\ tree[1].height = 3

\* C7: insert(v) of a value the tree already stores completes normally and
\* leaves shape, values and cached heights unchanged.
C7_InsertExistingNoOp ==
    (op = "insert" /\ arg \in Elements(before)) =>
        /\ fatal = ""
        /\ tree = before

\* C8: no sequence of public insert and remove calls reaches a fatal path.
C8_NoFatalPath == fatal = ""

\* C9: with insert calls only, contains is true exactly for the values
\* inserted so far: each insert(v) adds v to the values contains finds and
\* changes the answer for no other value (the empty tree contains none).
C9_Membership ==
    [][\A w \in Values :
          contains(tree', w) <=> (w = arg' \/ contains(tree, w))]_vars

\* C9 witness: a new value went into a tree of at least four values and some
\* value has never been inserted.
C9_Witness ==
    /\ Returned("insert")
    /\ arg \notin Elements(before)
    /\ Size(before) >= 4
    /\ Elements(tree) # Values

\* C10: min() and max() are None iff the tree is empty; otherwise they are
\* the smallest and the largest value stored.
C10_MinMax ==
    /\ min(tree) = None <=> tree = None
    /\ max(tree) = None <=> tree = None
    /\ tree # None =>
         /\ min(tree) = Some(SetMin(Elements(tree)))
         /\ max(tree) = Some(SetMax(Elements(tree)))

\* C10 witness: after a remove, a tree whose root has both children, so that
\* neither min nor max is the root.
C10_Witness ==
    /\ Returned("remove")
    /\ tree # None
    /\ tree[1].left # None
    /\ tree[1].right # None
    /\ Size(tree) >= 4

Range(q) == {q[i] : i \in 1..Len(q)}

RECURSIVE SetToSortedSeq(_)
SetToSortedSeq(S) ==
    IF S = {} THEN <<>>
    ELSE <<SetMin(S)>> \o SetToSortedSeq(S \ {SetMin(S)})

\* C11: for any set S of distinct values inserted in any order into an empty
\* tree, into_iter yields exactly the elements of S, each once, in ascending
\* order: the empty tree yields nothing, and after each insert(v) into_iter
\* yields the ascending sequence of the values it yielded before plus v.
C11_RoundTrip ==
    /\ into_iter(tree) = <<>>
    /\ [][into_iter(tree') =
            SetToSortedSeq(Range(into_iter(tree)) \cup {arg'})]_vars

\* C11 witness: a sixth or later value was inserted between stored values.
C11_Witness ==
    /\ Returned("insert")
    /\ arg \notin Elements(before)
    /\ Size(tree) >= 6
    /\ \E a, b \in Elements(before) : a < arg /\ arg < b

\* C13: inserting three distinct values, in any order, gives a tree whose root
\* is the middle value, whose left child is the smallest and whose right child
\* the largest value, both children being leaves.
C13_ThreeValues ==
    Size(tree) = 3 =>
        LET n == tree[1] IN
        /\ n.left # None
        /\ n.right # None
        /\ n.left[1].val = SetMin(Elements(tree))
        /\ n.right[1].val = SetMax(Elements(tree))
        /\ n.val \in Elements(tree) \ {SetMin(Elements(tree)), SetMax(Elements(tree))}
        /\ n.left[1].left = None /\ n.left[1].right = None
        /\ n.right[1].left = None /\ n.right[1].right = None

\* C13 witness: the third value went in last and ended up as the root (a
\* double rotation).
C13_Witness ==
    /\ Returned("insert")
    /\ Size(before) = 2
    /\ Size(tree) = 3
    /\ tree[1].val = arg

NoDuplicates(q) == \A i, j \in 1..Len(q) : q[i] = q[j] => i = j

\* C12: the explicit-stack loop of into_iter terminates, pushes and pops every
\* node exactly once, and ends with the stack empty and every node detached
\* from the consumed tree.
C12_IntoIterLoop ==
    /\ [](it_pc # "idle" =>
            /\ NoDuplicates(pushed)
            /\ NoDuplicates(queue)
            /\ Range(queue) \subseteq Range(pushed)
            /\ Range(pushed) \subseteq Elements(before)
            /\ \A i \in 1..Len(stack) : stack[i].left = None)
    /\ [](it_pc = "done" =>
            /\ Range(pushed) = Elements(before)
            /\ Range(queue) = Elements(before)
            /\ Len(pushed) = Size(before)
            /\ Len(queue) = Size(before)
            /\ stack = <<>>
            /\ cur_node = None
            /\ tree = None)
    /\ (it_pc = "loop" ~> it_pc = "done")

\* C12 witness: into_iter has returned from a tree of at least six nodes.
C12_Witness ==
    /\ it_pc = "done"
    /\ op = "into_iter"
    /\ Size(before) >= 6

\* The subtree at which the descent of remove(self, value) stops: the one
\* whose root holds value, None when value is not stored.
RECURSIVE found_node(_, _)
found_node(self, value) ==
    IF self = None THEN None
    ELSE IF value < self[1].val THEN found_node(self[1].left, value)
    ELSE IF value > self[1].val THEN found_node(self[1].right, value)
    ELSE self

\* The last call was a remove that found its value at a node with two children.
RemovedTwoChildren ==
    /\ Returned("remove")
    /\ found_node(before, arg) # None
    /\ found_node(before, arg)[1].left # None
    /\ found_node(before, arg)[1].right # None

\* C14: when remove deletes a node with two children, only the removed value
\* leaves the tree: the in-order successor, every element of the old left
\* subtree and every other element of the old right subtree, the successor's
\* own right subtree included, are still stored afterwards.
C14_TwoChildrenRemove ==
    RemovedTwoChildren =>
        LET n    == found_node(before, arg)[1]
            succ == found_node(n.right, node_min(n.right[1]))[1]
        IN /\ ~contains(tree, arg)
           /\ contains(tree, succ.val)
           /\ \A w \in Elements(n.left) : contains(tree, w)
           /\ \A w \in Elements(n.right) : contains(tree, w)
           /\ \A w \in Elements(succ.right) : contains(tree, w)
           /\ Elements(tree) = Elements(before) \ {arg}

----------------------------------------------------------------------------
\* What the rebalancing functions see.  balance and remove_balance read the
\* balance factor of the node they are called on (lines 129, 170) and
\* remove_balance that of its heavier child (lines 171, 180).

inspect(self) ==
    LET node == self[1]
        bal  == node_get_balance(node)
    IN [bal   |-> bal,
        heavy |-> IF bal >= 2 THEN get_balance(node.left)
                  ELSE IF bal < -1 THEN get_balance(node.right)
                  ELSE 0]

\* The inspections made by the calls of balance (line 237) during
\* insert(self, value), innermost frame first; a panic ends the sequence.
RECURSIVE insert_inspections(_, _)
insert_inspections(self, value) ==
    IF self = None THEN <<>>
    ELSE LET node == self[1] IN
         IF value = node.val THEN <<>>
         ELSE LET child == IF value < node.val THEN node.left ELSE node.right
                  sub   == insert(child, value)
                  node1 == IF value < node.val
                           THEN [node EXCEPT !.left = sub.t]
                           ELSE [node EXCEPT !.right = sub.t]
                  below == insert_inspections(child, value)
              IN IF sub.fatal # "" THEN below
                 ELSE Append(below, inspect(Some(update_height(node1))))

\* The inspections made by the calls of remove_balance (line 206) during
\* take_min_node(self).
RECURSIVE take_min_inspections(_)
take_min_inspections(self) ==
    IF self = None THEN <<>>
    ELSE LET node == self[1] IN
         IF node.left = None THEN <<>>
         ELSE LET sub   == take_min_node(node.left)
                  node1 == update_height([node EXCEPT !.left = sub.t])
                  below == take_min_inspections(node.left)
              IN IF sub.fatal # "" THEN below
                 ELSE Append(below, inspect(Some(node1)))

\* The inspections made by the calls of remove_balance (lines 66, 206) during
\* remove(self, value).
RECURSIVE remove_inspections(_, _)
remove_inspections(self, value) ==
    IF self = None THEN <<>>
    ELSE LET node == self[1] IN
         IF value < node.val THEN
             LET sub   == remove(node.left, value)
                 below == remove_inspections(node.left, value)
             IN IF sub.fatal # "" THEN below
                ELSE Append(below,
                       inspect(Some(update_height([node EXCEPT !.left = sub.t]))))
         ELSE IF value > node.val THEN
             LET sub   == remove(node.right, value)
                 below == remove_inspections(node.right, value)
             IN IF sub.fatal # "" THEN below
                ELSE Append(below,
                       inspect(Some(update_height([node EXCEPT !.right = sub.t]))))
         ELSE IF node.left = None \/ node.right = None THEN <<>>
         ELSE
             LET tm    == take_min_node(node.right)
                 below == take_min_inspections(node.right)
             IN IF tm.fatal # "" THEN below
                ELSE LET new_node == [tm.node[1] EXCEPT !.left = node.left,
                                                         !.right = tm.t]
                     IN Append(below, inspect(Some(update_height(new_node))))

\* The inspections of the last call.
LastInspections ==
    IF op = "insert" THEN insert_inspections(before, arg)
    ELSE IF op = "remove" THEN remove_inspections(before, arg)
    ELSE <<>>

Imbalanced(i) == i.bal >= 2 \/ i.bal < -1

\* C15: whenever balance finds a node with |balance| >= 2 during an insert
\* call, the balance factor of that node's heavier child is non-zero.
C15_HeavyChildNonZero ==
    op = "insert" =>
        \A k \in 1..Len(LastInspections) :
            Imbalanced(LastInspections[k]) => LastInspections[k].heavy # 0

\* C17: at every point where balance (during insert) or remove_balance (during
\* remove or take_min_node) inspects a node, its balance factor is in [-2, 2].
C17_BalanceFactorRange ==
    \A k \in 1..Len(LastInspections) : LastInspections[k].bal \in -2..2

\* The non-empty subtrees of t, t included.
RECURSIVE Subtrees(_)
Subtrees(t) ==
    IF t = None THEN {}
    ELSE {t} \cup Subtrees(t[1].left) \cup Subtrees(t[1].right)

\* C16: rotate_left and rotate_right, applied to a subtree that has the
\* required child, leave the in-order sequence of values unchanged and neither
\* add, drop nor duplicate a node; only the three edges named by the rotation
\* are re-wired (new root, x/y exchanged as parent and child, t2 handed over),
\* every other subtree stays where it was.  Checked on every subtree of every
\* reachable tree.
C16_RotationFrame ==
    \A s \in Subtrees(tree) :
        /\ s[1].right # None =>
             LET x == s[1]
                 y == x.right[1]
                 r == rotate_left(s)
             IN /\ r.fatal = ""
                /\ into_iter(r.t) = into_iter(s)
                /\ Size(r.t) = Size(s)
                /\ r.t[1].val = y.val
                /\ r.t[1].right = y.right
                /\ r.t[1].left # None
                /\ r.t[1].left[1].val = x.val
                /\ r.t[1].left[1].left = x.left
                /\ r.t[1].left[1].right = y.left
        /\ s[1].left # None =>
             LET y == s[1]
                 x == y.left[1]
                 r == rotate_right(s)
             IN /\ r.fatal = ""
                /\ into_iter(r.t) = into_iter(s)
                /\ Size(r.t) = Size(s)
                /\ r.t[1].val = x.val
                /\ r.t[1].left = x.left
                /\ r.t[1].right # None
                /\ r.t[1].right[1].val = y.val
                /\ r.t[1].right[1].right = y.right
                /\ r.t[1].right[1].left = x.right

\* C16 witness: the last remove rotated, and the tree has a node whose two
\* children both have an inner subtree t2 to hand over.
C16_Witness ==
    /\ Returned("remove")
    /\ \E k \in 1..Len(LastInspections) : Imbalanced(LastInspections[k])
    /\ \E s \in Subtrees(tree) :
          /\ s[1].left # None /\ s[1].left[1].right # None
          /\ s[1].right # None /\ s[1].right[1].left # None

\* C18: with insert calls only, after every call every node satisfies
\* |height(left) - height(right)| <= 1, and each insert call rebalances (one
\* single or one double rotation) at no more than one node.
C18_InsertOnly ==
    /\ AvlBalanced(tree)
    /\ Cardinality({k \in 1..Len(LastInspections) :
                       Imbalanced(LastInspections[k])}) <= 1

\* C18 witness: an insert rebalanced below the root of a tree of at least six
\* values; balance was called on the ancestors afterwards.
C18_Witness ==
    /\ Returned("insert")
    /\ Size(tree) >= 6
    /\ \E k \in 1..(Len(LastInspections) - 1) : Imbalanced(LastInspections[k])

====
